---------------------------- MODULE Spec2Model ----------------------------
(***************************************************************************)
(* wolrs: parse_mac and create_magic_packet of src/src/lib.rs.             *)
(*                                                                         *)
(* A string is a sequence of Unicode scalar values (code points).  The     *)
(* position of a character is 0-based in the source (enumerate()) and the  *)
(* sequences here are 1-based, so the character at source index k is       *)
(* mac[k + 1].  Arrays (eui, packet) are kept 1-based the same way: the    *)
(* source slot n is element n + 1.                                         *)
(***************************************************************************)
EXTENDS Integers, Sequences, FiniteSets, TLC

VARIABLES
    mac,              \* the &str argument, as its sequence of chars
    pc,               \* position of the call
    eui,              \* parse_mac: let mut eui
    high_nibble,      \* parse_mac: let mut high_nibble
    offset,           \* parse_mac: let mut offset
    idx,              \* parse_mac: the enumerate() index of the next char
    parsed,           \* what parse_mac returned
    packet,           \* create_magic_packet: let mut packet
    i,                \* create_magic_packet: the outer loop counter
    result            \* what create_magic_packet returned

vars == <<mac, pc, eui, high_nibble, offset, idx, parsed,
          packet, i, result>>

---------------------------------------------------------------------------
(* Characters *)

\* The printable ASCII characters, in code point order from U+0020.
Printable ==
    << " ", "!", "QUOTE", "#", "$", "%", "&", "'", "(", ")", "*", "+", ",", "-",
       ".", "/", "0", "1", "2", "3", "4", "5", "6", "7", "8", "9", ":", ";",
       "<", "=", ">", "?", "@", "A", "B", "C", "D", "E", "F", "G", "H", "I",
       "J", "K", "L", "M", "N", "O", "P", "Q", "R", "S", "T", "U", "V", "W",
       "X", "Y", "Z", "[", "BACKSLASH", "]", "^", "_", "BACKTICK", "a", "b", "c", "d", "e",
       "f", "g", "h", "i", "j", "k", "l", "m", "n", "o", "p", "q", "r", "s",
       "t", "u", "v", "w", "x", "y", "z", "{", "|", "}", "~" >>

\* The code point of a printable ASCII character.
Ord(s) == 31 + CHOOSE n \in 1..Len(Printable) : Printable[n] = s

\* A string literal, written one character per element.
Str(lit) == [n \in 1..Len(lit) |-> Ord(lit[n])]

\* The characters the match of parse_mac names.
Char0 == Ord("0")
Char9 == Ord("9")
CharLowerA == Ord("a")
CharLowerF == Ord("f")
CharUpperA == Ord("A")
CharUpperF == Ord("F")
CharHyphen == Ord("-")
CharColon == Ord(":")
CharDot == Ord(".")

\* Characters outside ASCII, of 2, 3 and 4 bytes in UTF-8.
WideChars == <<233, 8364, 128512>>
EAcute == WideChars[1]
EuroSign == WideChars[2]
Grinning == WideChars[3]

\* char::len_utf8
len_utf8(c) ==
    IF c < 128 THEN 1
    ELSE IF c < 2048 THEN 2
    ELSE IF c < 65536 THEN 3
    ELSE 4

RECURSIVE SumWidths(_, _)
SumWidths(s, n) == IF n = 0 THEN 0 ELSE len_utf8(s[n]) + SumWidths(s, n - 1)

\* str::len : the length of the string in bytes of its UTF-8 encoding
str_len(s) == SumWidths(s, Len(s))

---------------------------------------------------------------------------
(* parse_mac *)

EUI48_LEN == 6

ZeroEui == [n \in 1..EUI48_LEN |-> 0]

BadFormat == [tag |-> "BadFormat"]
BadLength(n) == [tag |-> "BadLength", size |-> n]
\* Variant: the index counted from 1.
BadCharacter_m(c, k) == [tag |-> "BadCharacter", ch |-> c, index |-> k + 1]
BadCharacter(c, k) == [tag |-> "BadCharacter", ch |-> c, index |-> k]
Ok(v) == [tag |-> "Ok", value |-> v]
Panic == [tag |-> "Panic"]
NoReturn == [tag |-> "None"]

\* Variant: the 14-character form left out of the match.
LengthAccepted_m(n) == n \in {12, 17}

\* match mac.len() { 12 | 14 | 17 => {} ...
LengthAccepted(n) == n \in {12, 14, 17}

\* Variant: the guard off by one.
OctetsFull_m(off) == off > EUI48_LEN

\* if offset >= EUI48_LEN
OctetsFull(off) == off >= EUI48_LEN

\* Variant: the lower-case range running on to 'h'.
IsHexDigit_m(c) ==
    \/ Char0 <= c /\ c <= Char9
    \/ CharLowerA <= c /\ c <= CharLowerF + 2
    \/ CharUpperA <= c /\ c <= CharUpperF

\* '0'...'9' | 'a'...'f' | 'A'...'F'
IsHexDigit(c) ==
    \/ Char0 <= c /\ c <= Char9
    \/ CharLowerA <= c /\ c <= CharLowerF
    \/ CharUpperA <= c /\ c <= CharUpperF

\* '-' | ':' | '.'
IsSeparator(c) == c \in {CharHyphen, CharColon, CharDot}

\* Variant: an upper-case digit valued without the offset of ten.
to_digit_m(c) ==
    IF Char0 <= c /\ c <= Char9 THEN c - Char0
    ELSE IF CharLowerA <= c /\ c <= CharLowerF THEN c - CharLowerA + 10
    ELSE c - CharUpperA

\* c.to_digit(16).unwrap() as u8, on a character the match arm let through
to_digit(c) ==
    IF Char0 <= c /\ c <= Char9 THEN c - Char0
    ELSE IF CharLowerA <= c /\ c <= CharLowerF THEN c - CharLowerA + 10
    ELSE c - CharUpperA + 10

\* (digit as u8) << 4 : a u8 shift drops the bits shifted out
HighNibble(c) == (to_digit(c) * 16) % 256

\* The locals of parse_mac, with ret the value returned so far (NoReturn
\* while the loop goes on).
Locals(e, h, o, r) == [eui |-> e, high_nibble |-> h, offset |-> o, ret |-> r]

\* The hex-digit arm of the match, lines 56-68.  oc tells whether the build
\* checks arithmetic overflow (it then panics) or lets the u8 wrap; an index
\* out of the array's range panics in every build.
HexArm(st, c, oc) ==
    IF st.offset + 1 \notin 1..EUI48_LEN
    THEN Locals(st.eui, ~st.high_nibble, st.offset, Panic)
    ELSE IF ~st.high_nibble
    THEN Locals([st.eui EXCEPT ![st.offset + 1] = HighNibble(c)],
                TRUE, st.offset, NoReturn)
    ELSE LET sum == st.eui[st.offset + 1] + to_digit(c)
         IN  IF sum > 255 /\ oc
             THEN Locals(st.eui, FALSE, st.offset, Panic)
             ELSE Locals([st.eui EXCEPT ![st.offset + 1] = sum % 256],
                         FALSE, st.offset + 1, NoReturn)

\* Variant: the character classified before the offset is tested.
ScanChar_m(st, c, k, oc) ==
    IF IsHexDigit(c)
    THEN IF OctetsFull(st.offset) THEN [st EXCEPT !.ret = BadFormat]
         ELSE HexArm(st, c, oc)
    ELSE IF IsSeparator(c)
    THEN IF OctetsFull(st.offset) THEN [st EXCEPT !.ret = BadFormat] ELSE st
    ELSE [st EXCEPT !.ret = BadCharacter(c, k)]

\* One iteration of the for loop, lines 50-73, on the char c at index k.
ScanChar(st, c, k, oc) ==
    IF OctetsFull(st.offset)
    THEN [st EXCEPT !.ret = BadFormat]
    ELSE IF IsHexDigit(c) THEN HexArm(st, c, oc)
    ELSE IF IsSeparator(c) THEN st
    ELSE [st EXCEPT !.ret = BadCharacter(c, k)]

RECURSIVE ScanFrom(_, _, _, _)
\* The for loop from index k on: it stops at the first return.
ScanFrom(st, s, k, oc) ==
    IF st.ret # NoReturn THEN st.ret
    ELSE IF k >= Len(s) THEN Ok(st.eui)
    ELSE ScanFrom(ScanChar(st, s[k + 1], k, oc), s, k + 1, oc)

\* parse_mac as a function of its argument.
parse_mac(s, oc) ==
    IF ~LengthAccepted(str_len(s)) THEN BadLength(str_len(s))
    ELSE ScanFrom(Locals(ZeroEui, FALSE, 0, NoReturn), s, 0, oc)

---------------------------------------------------------------------------
(* create_magic_packet *)

PACKET_LEN == 102

\* Variant: the outer loop running one round too many.
FillEnd_m == 17 + 1

\* for i in 1..17
FillFirst == 1
FillEnd == 17

\* Variant: the copies laid out from the first byte of the packet.
PacketIndex_m(a, j) == (a - 1) * 6 + j

\* packet[i * 6 + j]
PacketIndex(a, j) == a * 6 + j

\* let mut packet = [0xFFu8; 102]
FreshPacket == [n \in 1..PACKET_LEN |-> 255]

RECURSIVE FillFrom(_, _, _, _)
\* The inner loop, for j in j..6, of outer iteration a: one write a round.
FillFrom(p, a, addr, j) ==
    IF j >= EUI48_LEN THEN p
    ELSE FillFrom([p EXCEPT ![PacketIndex(a, j) + 1] = addr[j + 1]], a, addr, j + 1)

\* The inner loop, for j in 0..6, of outer iteration a.
FillRound(p, a, addr) == FillFrom(p, a, addr, 0)

\* An index of the inner loop is out of the packet's range.
FillOutOfRange(a) == \E j \in 0..5 : PacketIndex(a, j) \notin 0..(PACKET_LEN - 1)

---------------------------------------------------------------------------
(* The inputs *)

\* The longest generated text, in characters.
MaxLen == 18
\* The number of characters replaced in a generated text.
MaxEdits == 1

Cycle(pat, n) == [k \in 1..n |-> pat[((k - 1) % Len(pat)) + 1]]

\* Twelve hex digits, written plain, in pairs and in groups of four.
PlainPattern == Str(<<"c","a","1","1","a","b","1","e","b","a","b","e">>)
PairPattern ==
    Str(<<"c","a",":","1","1",":","a","b",":","1","e",":","b","a",":","b","e",":">>)
GroupPattern ==
    Str(<<"c","A","1","1",".","a","B","1","e",".","b","a","b","E",".">>)

Patterns == {PlainPattern, PairPattern, GroupPattern}

PatternTexts == {Cycle(p, n) : p \in Patterns, n \in 0..MaxLen}

\* The text of test_invalid_err with several invalid characters.
InvalidText ==
    Str(<<"h","e",".","j","s",":","a","n",":","c","c",":","d","d",":","e","e">>)

\* The texts of the tests and of the documentation.
Literals ==
    { Str(<<"f","f",":","a","a",":","b","b",":","c","c",":","d","d",":","e","e">>),
      Str(<<"d","e","-","a","d","-","b","e","-","e","f","-","b","a","-","b","e">>),
      Str(<<"c","a",".","1","1",".","a","b",".","1","e",".","b","a",".","b","e">>),
      Str(<<"c","a",".","1","1",":","a","b","-","1","e",".","b","a",":","b","e">>),
      Str(<<"c","a","1","1","a","b","1","e","b","a","b","e">>),
      Str(<<"h","e","l","l","o">>),
      InvalidText,
      Str(<<"a","b",":","c","d">>),
      Str(<<"a","b",":","c","d",":","a","b",":","c","d",":","a","b",":","c","d",":",
            "a","b",":","c","d",":","a","b">>),
      Str(<<"c","a","1","1","a","b","1","e","b","a",":","b","e">>),
      Str(<<"A","A",":","a","a",":","a","a",":","a","a",":","a","a",":","a","a">>),
      Str(<<"a","a",":","a","a",":","a","a",":","a","a",":","a","a",":","a","a">>),
      Str(<<"a","a",":","a","a","b","b","c","c","d","d","e","e","f","f","a","a">>),
      Str(<<"a","a","-","b","b","-","c","c","-","d","d","-","e","e","-","f","f">>),
      Str(<<"a","a","b","b","c","c","d","d","e","e","f","f">>) }

\* Twelve hex digits and two separators, the separators at any two places.
Digits12 == Str(<<"0","9","a","f","A","F","1","e","7","C","d","8">>)
TwoSeparators ==
    { [k \in 1..14 |->
         IF k = pq[1] THEN Ord("-")
         ELSE IF k = pq[2] THEN Ord(".")
         ELSE Digits12[k - (IF pq[1] < k THEN 1 ELSE 0)
                         - (IF pq[2] < k THEN 1 ELSE 0)]]
      : pq \in {x \in (1..14) \X (1..14) : x[1] < x[2]} }

\* The characters put in place of a character of a text.
EditChars == {Ord("."), Ord("F"), Ord("g"), EAcute}

Replace(s, p, c) == [s EXCEPT ![p] = c]

RECURSIVE Edited(_, _)
Edited(S, n) ==
    IF n = 0 THEN S
    ELSE LET E == Edited(S, n - 1)
         IN  E \cup UNION {{Replace(s, p, c) : p \in 1..Len(s), c \in EditChars} : s \in E}

\* The texts that are edited: those an edit can leave, or bring to, an
\* accepted length (a replaced character may take 2 bytes instead of 1).
NearAccepted(s) == \E k \in 0..MaxEdits : Len(s) + k \in {12, 14, 17}

\* Texts with characters of 3 and 4 bytes: 12, 14 and 19 bytes long.
WideTexts ==
    { Str(<<"c","a","1","1","a","b","1","e","b">>) \o <<EuroSign>>,
      Str(<<"c","a","1","1","a">>) \o <<Grinning>> \o Str(<<"b","1","e","b","a">>),
      Str(<<"c","a",":","1","1",":","a","b",":","1","e",":","b","a",":","b">>)
          \o <<EuroSign>> }

Inputs ==
    Literals \cup TwoSeparators \cup WideTexts \cup PatternTexts
        \cup Edited({s \in PatternTexts \cup {InvalidText} : NearAccepted(s)}, MaxEdits)

---------------------------------------------------------------------------
(* The call create_magic_packet(mac) *)

Init ==
    /\ mac \in Inputs
    /\ pc = "length"
    /\ eui = ZeroEui
    /\ high_nibble = FALSE
    /\ offset = 0
    /\ idx = 0
    /\ parsed = NoReturn
    /\ packet = FreshPacket
    /\ i = FillFirst
    /\ result = NoReturn

\* parse_mac, lines 45-48: the length check.
CheckLength ==
    /\ pc = "length"
    /\ IF LengthAccepted(str_len(mac))
       THEN /\ pc' = "scan"
            /\ parsed' = parsed
       ELSE /\ pc' = "parsed"
            /\ parsed' = BadLength(str_len(mac))
    /\ UNCHANGED <<mac, eui, high_nibble, offset, idx, packet,
                   i, result>>

\* parse_mac, lines 50-73: one iteration of the scan, in a build that checks
\* overflow (oc) or in one that does not.
ScanStep ==
    /\ pc = "scan"
    /\ idx < Len(mac)
    /\ \E oc \in BOOLEAN :
       LET st == ScanChar(Locals(eui, high_nibble, offset, NoReturn),
                          mac[idx + 1], idx, oc)
       IN  /\ eui' = st.eui
           /\ high_nibble' = st.high_nibble
           /\ offset' = st.offset
           /\ IF st.ret = NoReturn
              THEN /\ idx' = idx + 1
                   /\ pc' = "scan"
                   /\ UNCHANGED <<parsed, result>>
              ELSE IF st.ret = Panic
              THEN /\ pc' = "panic"
                   /\ result' = Panic
                   /\ UNCHANGED <<idx, parsed>>
              ELSE /\ pc' = "parsed"
                   /\ parsed' = st.ret
                   /\ UNCHANGED <<idx, result>>
    /\ UNCHANGED <<mac, packet, i>>

\* parse_mac, line 75: Ok(eui) once the chars are exhausted.
ScanEnd ==
    /\ pc = "scan"
    /\ idx >= Len(mac)
    /\ parsed' = Ok(eui)
    /\ pc' = "parsed"
    /\ UNCHANGED <<mac, eui, high_nibble, offset, idx, packet,
                   i, result>>

\* create_magic_packet, line 93: let mac = parse_mac(mac)?
Try ==
    /\ pc = "parsed"
    /\ IF parsed.tag = "Ok"
       THEN /\ pc' = "fill"
            /\ result' = result
       ELSE /\ pc' = "done"
            /\ result' = parsed
    /\ UNCHANGED <<mac, eui, high_nibble, offset, idx, parsed,
                   packet, i>>

\* create_magic_packet, lines 98-102: one iteration of the outer loop.
FillStep ==
    /\ pc = "fill"
    /\ i < FillEnd
    /\ IF FillOutOfRange(i)
       THEN /\ pc' = "panic"
            /\ result' = Panic
            /\ UNCHANGED <<packet, i>>
       ELSE /\ packet' = FillRound(packet, i, parsed.value)
            /\ i' = i + 1
            /\ UNCHANGED <<pc, result>>
    /\ UNCHANGED <<mac, eui, high_nibble, offset, idx, parsed>>

\* create_magic_packet, line 104: Ok(packet)
Return ==
    /\ pc = "fill"
    /\ i >= FillEnd
    /\ result' = Ok(packet)
    /\ pc' = "done"
    /\ UNCHANGED <<mac, eui, high_nibble, offset, idx, parsed,
                   packet, i>>

Next == CheckLength \/ ScanStep \/ ScanEnd \/ Try \/ FillStep \/ Return

Spec == Init /\ [][Next]_vars

---------------------------------------------------------------------------
(* Vocabulary of the properties, independent of the definitions above *)

LowerHex == Str(<<"0","1","2","3","4","5","6","7","8","9","a","b","c","d","e","f">>)
UpperHex == Str(<<"0","1","2","3","4","5","6","7","8","9","A","B","C","D","E","F">>)

HexChars == {LowerHex[n] : n \in 1..16} \cup {UpperHex[n] : n \in 1..16}
SeparatorChars == Str(<<"-", ":", ".">>)
SepChars == {SeparatorChars[n] : n \in 1..3}

\* The value of a hex digit, whatever its case.
Value(c) == (CHOOSE n \in 1..16 : LowerHex[n] = c \/ UpperHex[n] = c) - 1

IsHexChar(c) == c \in HexChars
HexOf(s) == SelectSeq(s, IsHexChar)

\* The number of hex digits among the first n characters of s.
HexCount(s, n) == Cardinality({k \in 1..n : s[k] \in HexChars})

\* The positions (from 1) of the characters that are neither hex digits nor
\* separators.
InvalidAt(s) == {k \in 1..Len(s) : s[k] \notin HexChars \cup SepChars}
FirstInvalid(s) == CHOOSE k \in InvalidAt(s) : \A m \in InvalidAt(s) : k <= m

\* The positions (from 1) reached with the sixth octet already complete.
OverflowAt(s) == {k \in 1..Len(s) : HexCount(s, k - 1) >= 12}

\* The length check lets the text through.
PassesLength == str_len(mac) \in {12, 14, 17}

\* The call has ended, with a result or with a panic.
Returned == pc \in {"done", "panic"}

HeJs == Str(<<"h","e",".","j","s",":","a","n",":","c","c",":","d","d",":","e","e">>)

---------------------------------------------------------------------------
(* C1 *)

\* C1: whenever create_magic_packet succeeds, the payload has 102 bytes, its
\* first six bytes are 0xFF, and each of the sixteen six-byte windows that
\* follow equals the address parse_mac returned for the same text.
C1_PacketLayout ==
    (pc = "done" /\ result.tag = "Ok") =>
        /\ \A oc \in BOOLEAN : parsed = parse_mac(mac, oc)
        /\ parsed.tag = "Ok"
        /\ Len(result.value) = 102
        /\ \A n \in 1..6 : result.value[n] = 255
        /\ \A w \in 0..15 : \A j \in 0..5 :
               result.value[6 + 6 * w + j + 1] = parsed.value[j + 1]

\* A successful call whose address differs from the synchronization bytes
\* and whose octets are not all alike.
C1_Witness ==
    /\ pc = "done"
    /\ result.tag = "Ok"
    /\ \A j \in 1..6 : parsed.value[j] # 255
    /\ parsed.value[1] # parsed.value[2]

---------------------------------------------------------------------------
(* C2 *)

\* The text has an accepted length, is made of exactly twelve hex digits and
\* of separators, and ends with its twelfth hex digit.
C2_WellFormed ==
    /\ PassesLength
    /\ InvalidAt(mac) = {}
    /\ Len(HexOf(mac)) = 12
    /\ mac[Len(mac)] \in HexChars

\* The address the digits of the text denote, two digits to the octet.
C2_Expected ==
    [k \in 1..6 |-> 16 * Value(HexOf(mac)[2 * k - 1]) + Value(HexOf(mac)[2 * k])]

\* C2: a text of accepted length made of exactly twelve hex digits and any
\* separators, none after the last digit, parses, and octet k is
\* 16 * value(d[2k]) + value(d[2k+1]) of its digits d, whatever the separators
\* and wherever they stand.
C2_OctetsFromDigits ==
    (pc \in {"parsed", "fill", "done"} /\ C2_WellFormed) =>
        parsed = [tag |-> "Ok", value |-> C2_Expected]

\* A well-formed text parsed, with two different separators, one of them
\* splitting an octet, and digits of both cases.
C2_Witness ==
    /\ pc = "done"
    /\ C2_WellFormed
    /\ mac[2] \in SepChars
    /\ \E k \in 1..Len(mac) : mac[k] \in SepChars /\ mac[k] # mac[2]
    /\ \E k \in 1..Len(mac) : mac[k] \in {UpperHex[n] : n \in 11..16}
    /\ \E k \in 1..Len(mac) : mac[k] \in {LowerHex[n] : n \in 11..16}

---------------------------------------------------------------------------
(* C3 *)

\* C3: parse_mac returns Ok only if the text holds exactly twelve hex digits
\* and all six octets were filled, high and low nibble each.
C3_OkOnlyOnTwelveDigits ==
    (pc \in {"parsed", "fill", "done"} /\ parsed.tag = "Ok") =>
        /\ Len(HexOf(mac)) = 12
        /\ offset = 6
        /\ ~high_nibble

---------------------------------------------------------------------------
(* C4 *)

\* C4: the call fails with BadLength(n) exactly when the length n of the text
\* (mac.len()) is not 12, 14 or 17; the check precedes the scan, so the error
\* carries the length whatever the characters are, and no character has been
\* looked at.
C4_BadLengthIff ==
    Returned =>
        /\ (result.tag = "BadLength") <=> (str_len(mac) \notin {12, 14, 17})
        /\ result.tag = "BadLength" =>
               /\ result = [tag |-> "BadLength", size |-> str_len(mac)]
               /\ idx = 0 /\ offset = 0 /\ eui = ZeroEui /\ ~high_nibble

\* A text of a rejected length that also holds an invalid character and more
\* than twelve hex digits, reported as BadLength.
C4_Witness ==
    /\ pc = "done"
    /\ result.tag = "BadLength"
    /\ InvalidAt(mac) # {}
    /\ Len(HexOf(mac)) > 12

---------------------------------------------------------------------------
(* C5 *)

\* C5 as stated: a text of accepted length holding a character that is
\* neither a hex digit nor a separator fails with BadCharacter(c, i) for the
\* first such character c, at index i.
C5_FirstInvalidReported ==
    (Returned /\ PassesLength /\ InvalidAt(mac) # {}) =>
        result = [tag |-> "BadCharacter", ch |-> mac[FirstInvalid(mac)],
                  index |-> FirstInvalid(mac) - 1]

\* C5, amended: a text of accepted length holding a character that is neither
\* a hex digit nor a separator fails with BadCharacter(c, i) for the first
\* such character c, at index i, when fewer than twelve hex digits precede
\* it, and with BadFormat when twelve or more do.
C5_FirstInvalidOrFormat ==
    (Returned /\ PassesLength /\ InvalidAt(mac) # {}) =>
        IF HexCount(mac, FirstInvalid(mac) - 1) < 12
        THEN result = [tag |-> "BadCharacter", ch |-> mac[FirstInvalid(mac)],
                       index |-> FirstInvalid(mac) - 1]
        ELSE result = [tag |-> "BadFormat"]

\* A text with several invalid characters, the first not at index 0 and
\* another one after it.
C5_Witness ==
    /\ pc = "done"
    /\ result.tag = "BadCharacter"
    /\ Cardinality(InvalidAt(mac)) >= 2
    /\ result.index > 0
    /\ LET later == InvalidAt(mac) \ {FirstInvalid(mac)}
       IN  \E k \in later : mac[k] # mac[FirstInvalid(mac)]

---------------------------------------------------------------------------
(* C6 *)

\* A character stands after the twelfth hex digit, and nothing invalid stands
\* before that character.
C6_Overlong ==
    /\ OverflowAt(mac) # {}
    /\ \A k \in InvalidAt(mac) : \E m \in OverflowAt(mac) : m <= k

\* C6: a text of accepted length fails with BadFormat when the scan reaches a
\* character of any kind after the sixth octet is complete, no error having
\* been raised before; BadFormat is returned in no other case.
C6_BadFormatIff ==
    Returned =>
        ((result = [tag |-> "BadFormat"]) <=> (PassesLength /\ C6_Overlong))

\* The text "aa:aabbccddeeffaa" of the tests, rejected with BadFormat.
C6_Witness ==
    /\ pc = "done"
    /\ mac = Str(<<"a","a",":","a","a","b","b","c","c","d","d","e","e","f","f","a","a">>)
    /\ result.tag = "BadFormat"

---------------------------------------------------------------------------
(* C7 *)

\* C7: the length check counts characters: a text of 12, 14 or 17 characters
\* is never rejected with BadLength, and BadLength carries the number of
\* characters.
C7_LengthInCharacters ==
    Returned =>
        /\ Len(mac) \in {12, 14, 17} => result.tag # "BadLength"
        /\ result.tag = "BadLength" => result.size = Len(mac)

---------------------------------------------------------------------------
(* C8 *)

\* C8 as stated: "he.js:an:cc:dd:ee" fails with BadCharacter('j', 3).
C8_FailsAtJ ==
    (Returned /\ mac = HeJs) =>
        result = [tag |-> "BadCharacter", ch |-> Ord("j"), index |-> 3]

\* C8, amended: "he.js:an:cc:dd:ee" fails with BadCharacter('h', 0): 'h' is
\* no hex digit.
C8_FailsAtH ==
    (Returned /\ mac = HeJs) =>
        result = [tag |-> "BadCharacter", ch |-> Ord("h"), index |-> 0]

\* The call on "he.js:an:cc:dd:ee" has returned an error.
C8_Witness ==
    /\ pc = "done"
    /\ mac = HeJs
    /\ result.tag = "BadCharacter"

---------------------------------------------------------------------------
(* C9 *)

\* An error rule fires at position k (from 1) of s: the sixth octet is
\* complete, or the character is invalid.
C9_Fires(s, k) == k \in OverflowAt(s) \/ k \in InvalidAt(s)

\* The text s with every character after position k replaced by c.
C9_Ending(s, k, c) == [n \in 1..Len(s) |-> IF n <= k THEN s[n] ELSE c]

C9_Fill == {Ord("."), Ord("F"), Ord("g"), Ord("0"), EAcute}

\* C9: the error of the scan is the one raised at the smallest index at which
\* a rule fires, BadFormat taking precedence there over BadCharacter, and the
\* characters after that index do not matter: a text of the same length with
\* the same characters up to that index yields the same error.
C9_FirstErrorOnly ==
    (Returned /\ PassesLength /\ result.tag # "Ok") =>
        /\ C9_Fires(mac, idx + 1)
        /\ \A k \in 1..idx : ~C9_Fires(mac, k)
        /\ result = IF idx + 1 \in OverflowAt(mac)
                    THEN [tag |-> "BadFormat"]
                    ELSE [tag |-> "BadCharacter", ch |-> mac[idx + 1], index |-> idx]
        /\ \A c \in C9_Fill :
               LET other == C9_Ending(mac, idx + 1, c)
               IN  str_len(other) = str_len(mac) =>
                       \A oc \in BOOLEAN : parse_mac(other, oc) = result

\* An error raised before the end of a text in which a later character would
\* raise another error, and which differs from the texts it is compared to.
C9_Witness ==
    /\ pc = "done"
    /\ PassesLength
    /\ result.tag = "BadCharacter"
    /\ idx + 1 < Len(mac)
    /\ \E k \in InvalidAt(mac) : k > idx + 1 /\ mac[k] # mac[idx + 1]
    /\ \A c \in C9_Fill : C9_Ending(mac, idx + 1, c) # mac

---------------------------------------------------------------------------
(* C10 *)

\* C10: no index is out of range and no addition overflows: when a hex digit
\* is about to be stored the offset is in 0..5, a low nibble is added to a
\* slot whose low four bits are zero, every index written in the packet is
\* in 6..101, and the call ends with Ok or Err, never with a panic: it stops
\* only once it has returned.
C10_NoFault ==
    /\ pc # "panic"
    /\ result.tag \in {"None", "Ok", "BadFormat", "BadLength", "BadCharacter"}
    /\ (pc = "scan" /\ idx < Len(mac) /\ IsHexDigit(mac[idx + 1])
            /\ ~OctetsFull(offset)) =>
           /\ offset \in 0..5
           /\ high_nibble =>
                  /\ eui[offset + 1] % 16 = 0
                  /\ eui[offset + 1] + to_digit(mac[idx + 1]) <= 255
    /\ (pc = "fill" /\ i < FillEnd) =>
           \A j \in 0..5 : PacketIndex(i, j) \in 6..101
    /\ pc = "done" => result.tag # "None"
    /\ ~(ENABLED Next) => pc = "done"

\* The scan about to add the low nibble of the sixth octet, and the fill
\* about to write the last copy.
C10_WitnessScan ==
    /\ pc = "scan"
    /\ idx < Len(mac)
    /\ IsHexDigit(mac[idx + 1])
    /\ high_nibble
    /\ offset = 5
    /\ eui[6] = 240
    /\ to_digit(mac[idx + 1]) = 15

=============================================================================
